---- MODULE Spec2Model ----
(***************************************************************************)
(* Model of the product import pipeline of scripts/pipeline.py,            *)
(* scripts/scrape_amazon.py and scripts/add_product.py.                    *)
(*                                                                         *)
(*   SpecNorm     the URL normaliser (expand_short_url, extract_asin,      *)
(*                normalize_amazon_url) applied once and twice             *)
(*   SpecExtract  scrape_product applied to one HTTP response              *)
(*   Spec         run_pipeline: process_urls, process_products,           *)
(*                bulk_import / add_products_bulk and the cleanup          *)
(***************************************************************************)
EXTENDS Integers, Sequences, FiniteSets, TLC

None == "None"

(***************************************************************************)
(* URLs.  A URL is its host, the "/"-separated segments of its path and    *)
(* the "/"-separated pieces of its query string that follow the first "/"  *)
(* of the query (the piece right after "?" is not preceded by "/" and so    *)
(* can neither be a keyword of extract_asin's patterns).                   *)
(***************************************************************************)
MaxPath == 3
MaxQuery == 2

Asins == {"B000000001", "B000000002"}
Keywords == {"dp", "gp", "product"}
Segs == Keywords \cup Asins
Hosts == {"www.amazon.com", "amzn.to"}

SeqsUpTo(S, n) == UNION {[1..k -> S] : k \in 0..n}

Urls == [host : Hosts, path : SeqsUpTo(Segs, MaxPath), query : SeqsUpTo(Segs, MaxQuery)]

\* the text of the URL as the regular expressions see it: the segments that
\* are preceded by "/", with the "?" and the first query piece as one token
UrlText(url) == url.path \o <<"?">> \o url.query

\* "amzn.to" in url or "a.co" in url: the short-link domains, met as the
\* host of the URL
IsShortUrl(url) == url.host = "amzn.to"

\* the URLs a short link is seen to redirect to
ExpandTargets ==
    { [host |-> "www.amazon.com", path |-> <<"gp", "product", "B000000001">>, query |-> <<"dp", "B000000002">>],
      [host |-> "www.amazon.com", path |-> <<"product">>, query |-> <<>>],
      [host |-> "amzn.to", path |-> <<"dp", "B000000002">>, query |-> <<>>] }

NoUrl == [host |-> None, path |-> <<>>, query |-> <<>>]

\* what requests.head answers for a short link: an exception or response.url
NoHead == [ok |-> FALSE, url |-> NoUrl]
HeadOutcomes == {NoHead} \cup {[ok |-> TRUE, url |-> u] : u \in ExpandTargets}

expand_short_url(url, head) ==
    IF IsShortUrl(url)
    THEN IF head.ok THEN head.url ELSE url
    ELSE url

\* re.search(pat, text): the leftmost match of keyword segments followed by
\* a 10-character identifier
MatchAt(text, pat, i) ==
    /\ i + Len(pat) <= Len(text)
    /\ \A j \in 1..Len(pat) : text[i + j - 1] = pat[j]
    /\ text[i + Len(pat)] \in Asins

re_search(text, pat) ==
    LET hits == {i \in 1..Len(text) : MatchAt(text, pat, i)}
    IN  IF hits = {} THEN None
        ELSE LET i == CHOOSE k \in hits : \A m \in hits : k <= m
             IN  text[i + Len(pat)]

extract_asin(url) ==
    LET text == UrlText(url)
        dp_match == re_search(text, <<"dp">>)
        gp_match == re_search(text, <<"gp", "product">>)
        product_match == re_search(text, <<"product">>)
    IN  IF dp_match # None THEN dp_match
        ELSE IF gp_match # None THEN gp_match
        ELSE IF product_match # None THEN product_match
        ELSE None

CanonicalUrl(asin) == [host |-> "www.amazon.com", path |-> <<"dp", asin>>, query |-> <<>>]

\* a normaliser that rebuilds the /gp/product/ form and leaves the query on
normalize_amazon_url_keeps_query(url, head) ==
    LET expanded == expand_short_url(url, head)
        asin == extract_asin(expanded)
    IN  IF asin # None
        THEN [host |-> "www.amazon.com", path |-> <<"gp", "product", asin>>, query |-> expanded.query]
        ELSE expanded

normalize_amazon_url(url, head) ==
    LET expanded == expand_short_url(url, head)
        asin == extract_asin(expanded)
    IN  IF asin # None THEN CanonicalUrl(asin) ELSE expanded

\* the number of HEAD requests one call of normalize_amazon_url issues
HeadRequests(url) == IF IsShortUrl(url) THEN 1 ELSE 0

(***************************************************************************)
(* Text.  A string is the sequence of its runs of equal characters,        *)
(* [ch, n]; " " stands for any whitespace character.  Adjacent runs have   *)
(* different characters, so a string of 2500 letters is one run.           *)
(***************************************************************************)
Run(c, k) == [ch |-> c, n |-> k]

RECURSIVE TextLen(_)
TextLen(t) == IF t = <<>> THEN 0 ELSE Head(t).n + TextLen(Tail(t))

LStrip(t) == IF t # <<>> /\ Head(t).ch = " " THEN Tail(t) ELSE t

RStrip(t) == IF t # <<>> /\ t[Len(t)].ch = " " THEN SubSeq(t, 1, Len(t) - 1) ELSE t

\* str.strip()
Strip(t) == RStrip(LStrip(t))

\* elem.get_text(strip=True) of an element holding one text node
get_text_strip(t) == Strip(t)

\* re.sub(r'\s+', ' ', t)
CollapseWhitespace(t) == [i \in 1..Len(t) |-> IF t[i].ch = " " THEN Run(" ", 1) ELSE t[i]]

\* t[:k]
RECURSIVE Take(_, _)
Take(t, k) ==
    IF k <= 0 \/ t = <<>> THEN <<>>
    ELSE IF Head(t).n <= k THEN <<Head(t)>> \o Take(Tail(t), k - Head(t).n)
    ELSE <<Run(Head(t).ch, k)>>

\* " ".join(texts) of stripped, non-empty texts
RECURSIVE JoinSpace(_)
JoinSpace(texts) ==
    IF texts = <<>> THEN <<>>
    ELSE IF Len(texts) = 1 THEN texts[1]
    ELSE texts[1] \o <<Run(" ", 1)>> \o JoinSpace(Tail(texts))

RECURSIVE SelectNonEmpty(_)
SelectNonEmpty(texts) ==
    IF texts = <<>> THEN <<>>
    ELSE IF Head(texts) # <<>> THEN <<Head(texts)>> \o SelectNonEmpty(Tail(texts))
    ELSE SelectNonEmpty(Tail(texts))

DescLimit == 2000
AboutLimit == 1000

(***************************************************************************)
(* scrape_product: the name                                                *)
(***************************************************************************)
\* name_elem.get_text(strip=True), and the <title> text with the
\* "Amazon.com: " prefix and the " : <Category>..." suffix removed
TitleText(title) ==
    [title EXCEPT !.core = IF title.prefix
                           THEN (IF title.suffix THEN @ ELSE RStrip(@))
                           ELSE (IF title.suffix THEN LStrip(@) ELSE Strip(@))]

SubPrefix(title) ==
    IF title.prefix THEN [title EXCEPT !.prefix = FALSE, !.core = LStrip(@)] ELSE title

SubSuffix(title) ==
    IF title.suffix THEN [title EXCEPT !.suffix = FALSE, !.core = RStrip(@)] ELSE title

TitleName(title) == SubSuffix(SubPrefix(TitleText(title))).core

\* strategy 1 and strategy 2 of the name, each on its own
NameStrategy(page, k) ==
    IF k = 1
    THEN IF page.productTitle.present THEN get_text_strip(page.productTitle.text) ELSE <<>>
    ELSE IF page.title.present THEN TitleName(page.title) ELSE <<>>

\* the name as the first non-empty of the two strategies
ExtractNameFirstNonEmpty(page) ==
    IF NameStrategy(page, 1) # <<>> THEN NameStrategy(page, 1) ELSE NameStrategy(page, 2)

\* lines 160-172: the <title> is consulted only when there is no
\* productTitle element; None and "" are both the empty text, both falsy
ExtractName(page) ==
    IF page.productTitle.present
    THEN get_text_strip(page.productTitle.text)
    ELSE IF page.title.present THEN TitleName(page.title) ELSE <<>>

(***************************************************************************)
(* scrape_product: the price.  NoPrice stands for None.                    *)
(***************************************************************************)
NoPrice == 0 - 1
NumPriceSelectors == 5

Falsy(price) == price = NoPrice \/ price = 0

\* what one selector of price_selectors gives on its own: a number when the
\* element is there and its text holds a numeral, else None
PriceStrategy(page, k) ==
    IF page.prices[k].elem /\ page.prices[k].match THEN page.prices[k].value ELSE NoPrice

RECURSIVE PriceLoopNoBreak(_, _, _)
PriceLoopNoBreak(page, k, price) ==
    IF k > NumPriceSelectors THEN price
    ELSE IF PriceStrategy(page, k) # NoPrice
         THEN PriceLoopNoBreak(page, k + 1, PriceStrategy(page, k))
         ELSE PriceLoopNoBreak(page, k + 1, price)

\* lines 190-202: price is assigned on every match, the loop stops at the
\* first value above 0
RECURSIVE PriceLoop(_, _, _)
PriceLoop(page, k, price) ==
    IF k > NumPriceSelectors THEN price
    ELSE IF PriceStrategy(page, k) # NoPrice
         THEN IF PriceStrategy(page, k) > 0
              THEN PriceStrategy(page, k)
              ELSE PriceLoop(page, k + 1, PriceStrategy(page, k))
         ELSE PriceLoop(page, k + 1, price)

\* lines 205-216: the a-price container and its nested a-offscreen span
ContainerStrategy(page) ==
    IF page.container.elem /\ page.container.offscreen /\ page.container.match
    THEN page.container.value
    ELSE NoPrice

\* lines 178-220
ExtractPrice(page) ==
    LET looped == PriceLoop(page, 1, NoPrice)
        combined == IF Falsy(looped) /\ ContainerStrategy(page) # NoPrice
                    THEN ContainerStrategy(page)
                    ELSE looped
    IN  IF Falsy(combined) THEN 0 ELSE combined

(***************************************************************************)
(* scrape_product: Prime eligibility, lines 222-235                        *)
(***************************************************************************)
ExtractPrime(page) ==
    LET prime_indicators == \E k \in 1..4 : page.prime[k]
    IN  IF ~prime_indicators THEN page.prime[5] ELSE TRUE

(***************************************************************************)
(* scrape_product: the image.  "" stands for a missing attribute (None),   *)
(* a value starting with "data:" for an inline image.                      *)
(***************************************************************************)
NumImgSelectors == 4
DataUrls == {"data:hires", "data:src"}

\* img_elem.get("data-old-hires"), then img_elem.get("src")
ImageValue(img) == IF img.hires # "" THEN img.hires ELSE img.src

ImageAccepted(v) == v # "" /\ v \notin DataUrls

\* what one selector of img_selectors gives on its own
ImageStrategy(page, k) ==
    IF page.images[k].elem /\ ImageAccepted(ImageValue(page.images[k]))
    THEN ImageValue(page.images[k])
    ELSE ""

\* lines 248-257
RECURSIVE ImageLoop(_, _, _)
ImageLoop(page, k, image_url) ==
    IF k > NumImgSelectors THEN image_url
    ELSE IF page.images[k].elem
         THEN IF ImageAccepted(ImageValue(page.images[k]))
              THEN ImageValue(page.images[k])
              ELSE ImageLoop(page, k + 1, "")
         ELSE ImageLoop(page, k + 1, image_url)

ExtractImage(page) == ImageLoop(page, 1, "")

(***************************************************************************)
(* scrape_product: the description, lines 259-289                          *)
(***************************************************************************)
NumDescStrategies == 4

\* what each source of the description gives on its own, before the cleanup
DescStrategy(page, name, k) ==
    IF k = 1
    THEN IF page.bullets.present
         THEN JoinSpace(SelectNonEmpty([i \in 1..Len(page.bullets.items) |->
                                            get_text_strip(page.bullets.items[i])]))
         ELSE <<>>
    ELSE IF k = 2
    THEN IF page.desc.present THEN get_text_strip(page.desc.text) ELSE <<>>
    ELSE IF k = 3
    THEN IF page.about.present THEN Take(get_text_strip(page.about.text), AboutLimit) ELSE <<>>
    ELSE name

\* the three sources without the fallback to the product title
RawDescriptionNoNameFallback(page, name) ==
    IF DescStrategy(page, name, 1) # <<>> THEN DescStrategy(page, name, 1)
    ELSE IF DescStrategy(page, name, 2) # <<>> THEN DescStrategy(page, name, 2)
    ELSE DescStrategy(page, name, 3)

\* lines 259-283: each later source is read only while the description is
\* still empty
RawDescription(page, name) ==
    LET d1 == IF page.bullets.present THEN DescStrategy(page, name, 1) ELSE <<>>
        d2 == IF d1 = <<>>
              THEN (IF page.desc.present THEN DescStrategy(page, name, 2) ELSE d1)
              ELSE d1
        d3 == IF d2 = <<>>
              THEN (IF page.about.present THEN DescStrategy(page, name, 3) ELSE d2)
              ELSE d2
    IN  IF d3 = <<>> THEN name ELSE d3

\* lines 285-289
CleanDescription(d) ==
    LET cleaned == Strip(CollapseWhitespace(d))
    IN  IF TextLen(cleaned) > DescLimit
        THEN Take(cleaned, DescLimit) \o <<Run(".", 3)>>
        ELSE cleaned

ExtractDescription(page, name) == CleanDescription(RawDescription(page, name))

(***************************************************************************)
(* scrape_product, lines 140-298.  A response is the outcome of            *)
(* requests.get with raise_for_status, the bot-challenge markers in its    *)
(* text, and the elements of the page the selectors look for.              *)
(***************************************************************************)
NoProduct(reason) ==
    [ok |-> FALSE, reason |-> reason, name |-> <<>>, amazon_url |-> NoUrl, price |-> 0,
     prime_eligible |-> FALSE, image_url |-> "", product_description |-> <<>>]

scrape_product(url, head, resp) ==
    LET normalized_url == normalize_amazon_url(url, head)
        name == ExtractName(resp.page)
    IN  IF resp.status # "ok" THEN NoProduct("FetchFailure")
        ELSE IF resp.captcha THEN NoProduct("BotChallengeDetected")
        ELSE IF name = <<>> THEN NoProduct("MissingRequiredField")
        ELSE [ok |-> TRUE, reason |-> None, name |-> name, amazon_url |-> normalized_url,
              price |-> ExtractPrice(resp.page),
              prime_eligible |-> ExtractPrime(resp.page),
              image_url |-> ExtractImage(resp.page),
              product_description |-> ExtractDescription(resp.page, name)]

\* the network requests of one scrape_product call, in order
ScrapeRequests(url) == (IF IsShortUrl(url) THEN <<"HEAD">> ELSE <<>>) \o <<"GET">>

\* a step of scrape_product and the URL it is about
Step(op, url) == [op |-> op, url |-> url]

\* a scrape_product that fetches the page at the URL as given and
\* normalises the URL afterwards
ScrapeStepsFetchFirst(url, head, resp) ==
    <<Step("GET", url)>>
        \o (IF IsShortUrl(url) THEN <<Step("HEAD", url)>> ELSE <<>>)
        \o <<Step("NORMALIZE", normalize_amazon_url(url, head))>>
        \o (IF resp.status = "ok" /\ ~resp.captcha
            THEN <<Step("EXTRACT", normalize_amazon_url(url, head))>>
            ELSE <<>>)

\* the steps of one scrape_product call, in order: the normalisation of the
\* URL with its short-link expansion (line 144), the fetch of the page at
\* the normalised URL (line 147), and the field strategies (from line 160)
\* when the page was fetched and is no bot challenge
ScrapeSteps(url, head, resp) ==
    (IF IsShortUrl(url) THEN <<Step("HEAD", url)>> ELSE <<>>)
        \o <<Step("NORMALIZE", normalize_amazon_url(url, head)),
             Step("GET", normalize_amazon_url(url, head))>>
        \o (IF resp.status = "ok" /\ ~resp.captcha
            THEN <<Step("EXTRACT", normalize_amazon_url(url, head))>>
            ELSE <<>>)

(***************************************************************************)
(* The pages.  Each family varies the elements one field reads, over the   *)
(* default page; the fields are extracted independently of each other,     *)
(* but for the description, which falls back to the name.                  *)
(***************************************************************************)
Absent == [present |-> FALSE, text |-> <<>>]
Elem(t) == [present |-> TRUE, text |-> t]

NameTexts ==
    { <<>>, <<Run(" ", 2)>>, <<Run("n", 5)>>,
      <<Run(" ", 1), Run("n", 3), Run(" ", 2), Run("n", 2), Run(" ", 1)>>,
      <<Run("n", 2100)>> }
NameElems == {Absent} \cup {Elem(t) : t \in NameTexts}

NoTitle == [present |-> FALSE, prefix |-> FALSE, core |-> <<>>, suffix |-> FALSE]
TitleCores == {<<>>, <<Run(" ", 1)>>, <<Run("t", 4)>>, <<Run(" ", 1), Run("t", 4), Run(" ", 1)>>}
Titles == {NoTitle} \cup [present : {TRUE}, prefix : BOOLEAN, core : TitleCores, suffix : BOOLEAN]

NoPriceElem == [elem |-> FALSE, match |-> FALSE, value |-> 0]
PriceElems(k) ==
    { NoPriceElem,
      [elem |-> TRUE, match |-> FALSE, value |-> 0],
      [elem |-> TRUE, match |-> TRUE, value |-> 0],
      [elem |-> TRUE, match |-> TRUE, value |-> 10 + k] }

NoContainer == [elem |-> FALSE, offscreen |-> FALSE, match |-> FALSE, value |-> 0]
Containers ==
    { NoContainer,
      [elem |-> TRUE, offscreen |-> FALSE, match |-> FALSE, value |-> 0],
      [elem |-> TRUE, offscreen |-> TRUE, match |-> FALSE, value |-> 0],
      [elem |-> TRUE, offscreen |-> TRUE, match |-> TRUE, value |-> 0],
      [elem |-> TRUE, offscreen |-> TRUE, match |-> TRUE, value |-> 16] }

HiresUrls == <<"hires1", "hires2", "hires3", "hires4">>
SrcUrls == <<"src1", "src2", "src3", "src4">>
NoImage == [elem |-> FALSE, hires |-> "", src |-> ""]
ImageElems(k) ==
    {NoImage} \cup [elem : {TRUE}, hires : {"", "data:hires", HiresUrls[k]},
                    src : {"", "data:src", SrcUrls[k]}]

NoBullets == [present |-> FALSE, items |-> <<>>]
BulletLists ==
    { NoBullets,
      [present |-> TRUE, items |-> <<>>],
      [present |-> TRUE, items |-> <<<<Run(" ", 1)>>>>],
      [present |-> TRUE, items |-> <<<<Run("b", 5)>>>>],
      [present |-> TRUE, items |-> << <<Run(" ", 1), Run("b", 5)>>, <<>>, <<Run("b", 4), Run(" ", 3), Run("b", 2)>> >>],
      [present |-> TRUE, items |-> << <<Run("b", 1500)>>, <<Run("b", 1500)>> >>] }

DescElems ==
    { Absent, Elem(<<>>), Elem(<<Run(" ", 3)>>), Elem(<<Run("d", 5), Run(" ", 4), Run("d", 1)>>),
      Elem(<<Run("d", 2500)>>) }

AboutElems ==
    { Absent, Elem(<<Run(" ", 3)>>), Elem(<<Run("p", 5)>>), Elem(<<Run("p", 1500)>>),
      Elem(<<Run("p", 999), Run(" ", 3), Run("p", 10)>>) }

DefaultPage ==
    [productTitle |-> Elem(<<Run("n", 5)>>), title |-> NoTitle,
     prices |-> [k \in 1..NumPriceSelectors |-> NoPriceElem], container |-> NoContainer,
     prime |-> [k \in 1..5 |-> FALSE],
     images |-> [k \in 1..NumImgSelectors |-> NoImage],
     bullets |-> NoBullets, desc |-> Absent, about |-> Absent]

NamePages == {[DefaultPage EXCEPT !.productTitle = e, !.title = t] : e \in NameElems, t \in Titles}

\* the nested a-offscreen span of the container is an a-offscreen span of the
\* page, so the fifth selector finds an element whenever the container has one
PricePages ==
    {[DefaultPage EXCEPT !.prices = pc[1], !.container = pc[2]] :
        pc \in {x \in {<<p1, p2, p3, p4, p5>> :
                          p1 \in PriceElems(1), p2 \in PriceElems(2), p3 \in PriceElems(3),
                          p4 \in PriceElems(4), p5 \in PriceElems(5)} \X Containers :
                   x[2].offscreen => x[1][NumPriceSelectors].elem}}

PrimePages == {[DefaultPage EXCEPT !.prime = pr] : pr \in [1..5 -> BOOLEAN]}

ImagePages ==
    {[DefaultPage EXCEPT !.images = im] :
        im \in {<<i1, i2, i3, i4>> :
                   i1 \in ImageElems(1), i2 \in ImageElems(2),
                   i3 \in ImageElems(3), i4 \in ImageElems(4)}}

DescPages ==
    {[DefaultPage EXCEPT !.productTitle = e, !.bullets = b, !.desc = d, !.about = a] :
        e \in {Elem(<<Run("n", 5)>>), Elem(<<Run("n", 2100)>>)},
        b \in BulletLists, d \in DescElems, a \in AboutElems}

Pages == NamePages \cup PricePages \cup PrimePages \cup ImagePages \cup DescPages

OkResponse(page) == [status |-> "ok", captcha |-> FALSE, page |-> page]

Responses ==
    {OkResponse(page) : page \in Pages}
        \cup {[status |-> st, captcha |-> c, page |-> DefaultPage] :
                 st \in {"ok", "error"}, c \in BOOLEAN}

DefaultUrl == [host |-> "www.amazon.com", path |-> <<"dp", "B000000001">>, query |-> <<>>]
SampleUrls ==
    { DefaultUrl,
      [host |-> "www.amazon.com", path |-> <<"gp", "product", "B000000002">>, query |-> <<"dp">>],
      [host |-> "amzn.to", path |-> <<"product">>, query |-> <<>>] }

(***************************************************************************)
(* The batch.  An entry of the urls list is named by what it is and by     *)
(* what the network answers for it.                                        *)
(***************************************************************************)
MaxUrls == 3

ShortUrl == [host |-> "amzn.to", path |-> <<"product">>, query |-> <<>>]
NoNamePage == [DefaultPage EXCEPT !.productTitle = Absent]

EntryKinds == {"blank", "ok", "short_ok", "fetch_fail", "captcha", "no_name"}

\* url.strip() is empty
IsBlank(kind) == kind = "blank"

EntryUrl(kind) == IF kind = "short_ok" THEN ShortUrl ELSE DefaultUrl

EntryHead(kind) ==
    IF kind = "short_ok"
    THEN [ok |-> TRUE, url |-> [host |-> "www.amazon.com",
                                path |-> <<"gp", "product", "B000000001">>,
                                query |-> <<"dp", "B000000002">>]]
    ELSE NoHead

EntryResponse(kind) ==
    IF kind = "fetch_fail" THEN [status |-> "error", captcha |-> FALSE, page |-> DefaultPage]
    ELSE IF kind = "captcha" THEN [status |-> "ok", captcha |-> TRUE, page |-> DefaultPage]
    ELSE IF kind = "no_name" THEN OkResponse(NoNamePage)
    ELSE OkResponse(DefaultPage)

\* scrape_product(url) for an entry of the batch
ScrapeEntry(kind) == scrape_product(EntryUrl(kind), EntryHead(kind), EntryResponse(kind))

\* lines 313-316 and 336: the loop moves on to the next entry whatever the
\* outcome of the current one
NextIndexAbortOnFailure(i, product, n) == IF product.ok THEN i + 1 ELSE n + 1

NextIndex(i, product, n) == i + 1

\* a list that takes each new record at its front
CollectFront(products, product) == <<product>> \o products

\* line 323: products.append(asdict(product))
Collect(products, product) == Append(products, product)

\* line 331: the delay follows every processed entry but the one at the last
\* position of the list
SleepsAfter(i, n) == i < n

\* line 339: the artifact is written when there is a record to write
ShouldWriteAlways(products) == TRUE

ShouldWrite(products) == products # <<>>

\* an artifact file: whether it exists, whether it holds a JSON array, its records
NoFile == [exists |-> FALSE, islist |-> TRUE, data |-> <<>>]
ListFile(data) == [exists |-> TRUE, islist |-> TRUE, data |-> data]

\* a record of scraped_products.json left by an earlier run
StaleRecord == [ScrapeEntry("ok") EXCEPT !.name = <<Run("s", 5)>>]

\* a record of the enriched artifact: ProductInput(**item) accepts it or
\* raises TypeError (a missing or unexpected field)
GoodItem == [wellformed |-> TRUE]
BadItem == [wellformed |-> FALSE]
Items == {GoodItem, BadItem}

\* line 308: products = [ProductInput(**item) for item in data]
ConstructionFails(data) == \E k \in 1..Len(data) : ~data[k].wellformed

\* add_product: the embedding call or the insert may raise
AddOutcomes == {"added", "embedding_error", "insert_error"}

(***************************************************************************)
(* create_embedding_text, add_product.py 80-97.  A text is a sequence of   *)
(* tokens, the empty string the empty sequence; an age is given by its     *)
(* decimal text.                                                           *)
(***************************************************************************)
\* sep.join(texts)
RECURSIVE Join(_, _)
Join(sep, texts) ==
    IF texts = <<>> THEN <<>>
    ELSE IF Len(texts) = 1 THEN texts[1]
    ELSE texts[1] \o sep \o Join(sep, Tail(texts))

\* tags: None, or a list of strings
NoTags == [present |-> FALSE, items |-> <<>>]
TagList(items) == [present |-> TRUE, items |-> items]

\* if product.tags: None and [] are falsy
TagsTruthy(tags) == tags.present /\ tags.items # <<>>

CategoryClause(product) == <<"Category: ">> \o product.category
AgeClause(product) == <<"Good for ages ", product.min_age, " to ", product.max_age>>
GenderClause(product) == <<"Best for ", product.gender>>
TagsClause(product) ==
    <<"Keywords: ">> \o Join(<<", ">>, [k \in 1..Len(product.tags.items) |-> <<product.tags.items[k]>>])

\* the tags clause put before the gender clause
create_embedding_text_tags_first(product) ==
    LET parts == <<product.description, CategoryClause(product), AgeClause(product)>>
                    \o (IF TagsTruthy(product.tags) THEN <<TagsClause(product)>> ELSE <<>>)
                    \o (IF product.gender # "unisex" THEN <<GenderClause(product)>> ELSE <<>>)
    IN  Join(<<". ">>, SelectSeq(parts, LAMBDA part : part # <<>>))

\* lines 85-97; filter(None, parts) drops the parts that are empty
create_embedding_text(product) ==
    LET parts == <<product.description, CategoryClause(product), AgeClause(product)>>
                    \o (IF product.gender # "unisex" THEN <<GenderClause(product)>> ELSE <<>>)
                    \o (IF TagsTruthy(product.tags) THEN <<TagsClause(product)>> ELSE <<>>)
    IN  Join(<<". ">>, SelectSeq(parts, LAMBDA part : part # <<>>))

\* the fields of ProductInput the embedding text is made of
EmbedDescriptions == {<<>>, <<"Perfect for builders">>}
EmbedCategories == {<<>>, <<"toys">>, <<"books">>}
EmbedMinAges == {"0", "6"}
EmbedMaxAges == {"12", "99"}
EmbedGenders == {"male", "female", "unisex"}
EmbedTags == {NoTags, TagList(<<>>), TagList(<<"lego">>), TagList(<<"lego", "disney">>)}
EmbedProducts ==
    [description : EmbedDescriptions, category : EmbedCategories, min_age : EmbedMinAges,
     max_age : EmbedMaxAges, gender : EmbedGenders, tags : EmbedTags]
NoEmbedProduct ==
    [description |-> <<>>, category |-> <<>>, min_age |-> "0", max_age |-> "0",
     gender |-> "unisex", tags |-> NoTags]

VARIABLES npc, nurl, nhead, nres, nres2, nheads2,
          epc, eurl, ehead, eresp, erec, esteps,
          mpc, mproduct, mtext,
          pc, urls, keep_files, output_dir, temp_dir, prior_scraped,
          scraped_file, enriched_file, i, products, success_count, error_count,
          events, scraped_data, enriched_data, enrich_success, called,
          store_products, si, store_log, store_success, store_error, exit_status

nvars == <<npc, nurl, nhead, nres, nres2, nheads2>>
evars == <<epc, eurl, ehead, eresp, erec, esteps>>
mvars == <<mpc, mproduct, mtext>>
inputs == <<urls, keep_files, output_dir, prior_scraped>>
scrapevars == <<i, products, success_count, error_count, events>>
storevars == <<store_products, si, store_log, store_success, store_error>>
pvars == <<pc, inputs, temp_dir, scraped_file, enriched_file, scrapevars,
           scraped_data, enriched_data, enrich_success, called, storevars, exit_status>>

vars == <<nvars, evars, mvars, pvars>>

PipelineIdle ==
    /\ pc = "idle" /\ urls = <<>> /\ keep_files = FALSE /\ output_dir = FALSE
    /\ temp_dir = "none" /\ prior_scraped = NoFile
    /\ scraped_file = NoFile /\ enriched_file = NoFile
    /\ i = 1 /\ products = <<>> /\ success_count = 0 /\ error_count = 0
    /\ events = <<>> /\ scraped_data = <<>> /\ enriched_data = <<>> /\ called = {}
    /\ enrich_success = 0
    /\ store_products = <<>> /\ si = 1 /\ store_log = <<>>
    /\ store_success = 0 /\ store_error = 0 /\ exit_status = "running"

EmbedIdle == mpc = "idle" /\ mproduct = NoEmbedProduct /\ mtext = <<>>

NormIdle ==
    /\ npc = "idle" /\ nurl = NoUrl /\ nhead = NoHead
    /\ nres = NoUrl /\ nres2 = NoUrl /\ nheads2 = 0

ExtractIdle ==
    /\ epc = "idle" /\ eurl = NoUrl /\ ehead = NoHead
    /\ eresp = [status |-> "none"] /\ erec = [ok |-> FALSE] /\ esteps = <<>>

NormInit ==
    /\ npc = "start"
    /\ nurl \in Urls
    /\ nhead \in IF IsShortUrl(nurl) THEN HeadOutcomes ELSE {NoHead}
    /\ nres = NoUrl
    /\ nres2 = NoUrl
    /\ nheads2 = 0
    /\ ExtractIdle
    /\ EmbedIdle
    /\ PipelineIdle

\* normalized_url = normalize_amazon_url(url)
Normalize ==
    /\ npc = "start"
    /\ nres' = normalize_amazon_url(nurl, nhead)
    /\ npc' = "normalized"
    /\ UNCHANGED <<nurl, nhead, nres2, nheads2, evars, mvars, pvars>>

\* normalize_amazon_url applied to its own result
NormalizeAgain ==
    /\ npc = "normalized"
    /\ \E head2 \in IF IsShortUrl(nres) THEN HeadOutcomes ELSE {NoHead} :
          nres2' = normalize_amazon_url(nres, head2)
    /\ nheads2' = HeadRequests(nres)
    /\ npc' = "renormalized"
    /\ UNCHANGED <<nurl, nhead, nres, evars, mvars, pvars>>

NormNext == Normalize \/ NormalizeAgain

SpecNorm == NormInit /\ [][NormNext]_vars

\* the item identifier the path of the URL carries, the query string left out
PathAsin(url) == extract_asin([url EXCEPT !.query = <<>>])

Queries == SeqsUpTo(Segs, MaxQuery)

(***************************************************************************)
(* C6: two raw URLs that share the item identifier of their path and       *)
(* differ only in the query string normalise to the same canonical URL,    *)
(* https://www.amazon.com/dp/<item_id>: the query string never decides     *)
(* the identifier.                                                         *)
(***************************************************************************)
C6_QueryNeverInfluences ==
    (npc = "normalized" /\ ~IsShortUrl(nurl) /\ PathAsin(nurl) # None)
        => /\ nres = CanonicalUrl(PathAsin(nurl))
           /\ \A q \in Queries :
                  normalize_amazon_url([nurl EXCEPT !.query = q], nhead) = nres

(***************************************************************************)
(* C7: normalize_amazon_url is idempotent on every URL from which          *)
(* extract_asin obtains an identifier, and the second application issues   *)
(* no short-link expansion request.                                        *)
(***************************************************************************)
C7_NormalizeIdempotent ==
    (npc = "renormalized" /\ extract_asin(expand_short_url(nurl, nhead)) # None)
        => (nres2 = nres /\ nheads2 = 0)

\* a short link that expanded to a URL with tracking parameters was
\* normalised twice
C7_Witness ==
    /\ npc = "renormalized"
    /\ IsShortUrl(nurl) /\ nhead.ok
    /\ expand_short_url(nurl, nhead).query # <<>>
    /\ extract_asin(expand_short_url(nurl, nhead)) # None
    /\ nres2 = nres

(***************************************************************************)
(* SpecExtract: scrape_product on one URL and one response                 *)
(***************************************************************************)
ExtractInit ==
    /\ epc = "start"
    /\ \/ eresp \in Responses /\ eurl = DefaultUrl
       \/ eresp = OkResponse(DefaultPage) /\ eurl \in SampleUrls
    /\ ehead \in IF IsShortUrl(eurl) THEN HeadOutcomes ELSE {NoHead}
    /\ erec = NoProduct(None)
    /\ esteps = <<>>
    /\ NormIdle
    /\ EmbedIdle
    /\ PipelineIdle

\* product = scrape_product(url)
Scrape ==
    /\ epc = "start"
    /\ erec' = scrape_product(eurl, ehead, eresp)
    /\ esteps' = ScrapeSteps(eurl, ehead, eresp)
    /\ epc' = "done"
    /\ UNCHANGED <<eurl, ehead, eresp, nvars, mvars, pvars>>

ExtractNext == Scrape

SpecExtract == ExtractInit /\ [][ExtractNext]_vars

\* the page was fetched and is no bot challenge: the field strategies ran
Extracted == epc = "done" /\ eresp.status = "ok" /\ ~eresp.captcha

(***************************************************************************)
(* C10: the name is the first non-empty of the primary title element and   *)
(* the page title, and the scrape fails for a missing name only when       *)
(* neither is non-empty.                                                   *)
(***************************************************************************)
C10_NameFirstNonEmpty ==
    Extracted =>
        /\ erec.ok <=> (\E k \in 1..2 : NameStrategy(eresp.page, k) # <<>>)
        /\ erec.ok => erec.name = ExtractNameFirstNonEmpty(eresp.page)
        /\ ~erec.ok => erec.reason = "MissingRequiredField"

\* the price strategies in order: the five selectors, then the container
NumPriceStrategies == NumPriceSelectors + 1
PriceStrategyAll(page, k) ==
    IF k <= NumPriceSelectors THEN PriceStrategy(page, k) ELSE ContainerStrategy(page)

(***************************************************************************)
(* C9: for the name, the price, the image URL and the description of a     *)
(* scraped record: when strategy k would produce an accepted value, the    *)
(* value returned is that of strategy k or of an earlier strategy that     *)
(* produced an accepted value, never that of a later strategy.             *)
(***************************************************************************)
C9_FallbackMonotone ==
    (Extracted /\ erec.ok) =>
        LET page == eresp.page IN
        /\ \A k \in 1..2 :
              NameStrategy(page, k) # <<>>
                  => \E j \in 1..k : /\ NameStrategy(page, j) # <<>>
                                     /\ erec.name = NameStrategy(page, j)
        /\ \A k \in 1..NumPriceStrategies :
              PriceStrategyAll(page, k) > 0
                  => \E j \in 1..k : /\ PriceStrategyAll(page, j) > 0
                                     /\ erec.price = PriceStrategyAll(page, j)
        /\ \A k \in 1..NumImgSelectors :
              ImageStrategy(page, k) # ""
                  => \E j \in 1..k : /\ ImageStrategy(page, j) # ""
                                     /\ erec.image_url = ImageStrategy(page, j)
        /\ \A k \in 1..NumDescStrategies :
              DescStrategy(page, erec.name, k) # <<>>
                  => \E j \in 1..k :
                        /\ DescStrategy(page, erec.name, j) # <<>>
                        /\ erec.product_description
                               = CleanDescription(DescStrategy(page, erec.name, j))

\* a page whose first price selector reads 0, whose second and fourth read a
\* price above 0: the record carries the second selector's price
C9_Witness ==
    /\ Extracted /\ erec.ok
    /\ PriceStrategyAll(eresp.page, 1) = 0
    /\ PriceStrategyAll(eresp.page, 2) > 0
    /\ PriceStrategyAll(eresp.page, 4) > 0
    /\ erec.price = PriceStrategyAll(eresp.page, 2)
    /\ erec.price # PriceStrategyAll(eresp.page, 4)

\* the fields of the record scrape_product returns
RecordFields(rec) == DOMAIN rec

(***************************************************************************)
(* C11: for every successfully scraped record: when no price strategy      *)
(* matches, the price is 0.00 and the record's extraction-quality marker   *)
(* for the price is "missing"; when some price strategy matches a valid    *)
(* numeral, the price is strictly greater than 0; and the scrape of a page *)
(* with a name never fails for want of a price.                            *)
(***************************************************************************)
C11_PriceSentinel ==
    Extracted =>
        LET page == eresp.page
            matched == {k \in 1..NumPriceStrategies : PriceStrategyAll(page, k) # NoPrice}
        IN  /\ ExtractName(page) # <<>> => erec.ok
            /\ (erec.ok /\ matched = {})
                  => /\ erec.price = 0
                     /\ "extraction_quality" \in RecordFields(erec)
                     /\ erec.extraction_quality.price = "missing"
            /\ (erec.ok /\ matched # {}) => erec.price > 0

(***************************************************************************)
(* C12: every record scrape_product returns has a non-empty                *)
(* product_description: it is the first non-empty of the bullet items, the *)
(* description container, the about-this-item block and the name, and it   *)
(* is still non-empty after the whitespace normalisation and truncation.   *)
(***************************************************************************)
C12_DescriptionNonEmpty ==
    (Extracted /\ erec.ok) =>
        LET page == eresp.page IN
        /\ erec.product_description # <<>>
        /\ TextLen(erec.product_description) > 0
        /\ Head(erec.product_description).ch # " "
        /\ \E k \in 1..NumDescStrategies :
              /\ DescStrategy(page, erec.name, k) # <<>>
              /\ \A j \in 1..(k - 1) : DescStrategy(page, erec.name, j) = <<>>
              /\ erec.product_description
                     = CleanDescription(DescStrategy(page, erec.name, k))

\* the bullet list, the description container and the about block are on
\* the page and hold whitespace only; the description is the name, cut at
\* DescLimit characters and closed with the ellipsis
C12_Witness ==
    /\ Extracted /\ erec.ok
    /\ eresp.page.bullets.present /\ eresp.page.desc.present /\ eresp.page.about.present
    /\ eresp.page.desc.text # <<>>
    /\ \A k \in 1..3 : DescStrategy(eresp.page, erec.name, k) = <<>>
    /\ TextLen(erec.name) > DescLimit
    /\ TextLen(erec.product_description) = DescLimit + 3

\* the positions of a step in the steps of the scrape
StepsOf(op) == {k \in 1..Len(esteps) : esteps[k].op = op}

(***************************************************************************)
(* C15 as stated: for each URL the steps are Fetching, then Normalizing,   *)
(* then Extracting: the page fetch (GET) happens before the URL is         *)
(* normalised, and the field extraction starts only after both.            *)
(***************************************************************************)
C15_FetchBeforeNormalize ==
    epc = "done" =>
        /\ StepsOf("GET") # {} /\ StepsOf("NORMALIZE") # {}
        /\ \A g \in StepsOf("GET") : \A n \in StepsOf("NORMALIZE") : g < n
        /\ \A x \in StepsOf("EXTRACT") :
              \A k \in StepsOf("GET") \cup StepsOf("NORMALIZE") : k < x

(***************************************************************************)
(* C15 amended: for each URL the steps are Normalizing, then Fetching,     *)
(* then Extracting, ending in a record or in a failure with its reason:    *)
(* the URL is normalised (a short link expanded first) before the page     *)
(* fetch, the GET goes to the normalised URL, and the field extraction     *)
(* starts only after both, and only on a fetched page that is no bot       *)
(* challenge.                                                              *)
(***************************************************************************)
C15_NormalizeBeforeFetch ==
    epc = "done" =>
        /\ Cardinality(StepsOf("GET")) = 1 /\ Cardinality(StepsOf("NORMALIZE")) = 1
        /\ \A h \in StepsOf("HEAD") : \A n \in StepsOf("NORMALIZE") : h < n
        /\ \A n \in StepsOf("NORMALIZE") : \A g \in StepsOf("GET") :
              n < g /\ esteps[g].url = esteps[n].url
        /\ \A x \in StepsOf("EXTRACT") :
              \A k \in StepsOf("GET") \cup StepsOf("NORMALIZE") : k < x
        /\ StepsOf("EXTRACT") # {} <=> (eresp.status = "ok" /\ ~eresp.captcha)
        /\ erec.ok => (StepsOf("EXTRACT") # {} /\ \A g \in StepsOf("GET") : erec.amazon_url = esteps[g].url)
        /\ ~erec.ok => erec.reason \in {"FetchFailure", "BotChallengeDetected", "MissingRequiredField"}

\* a short link that expands to a product URL: the page is fetched at the
\* canonical URL, which is not the URL given, and the record carries it
C15_Witness ==
    /\ epc = "done" /\ erec.ok
    /\ IsShortUrl(eurl) /\ ehead.ok
    /\ Len(esteps) = 4
    /\ esteps[1] = Step("HEAD", eurl)
    /\ esteps[2].op = "NORMALIZE" /\ esteps[3].op = "GET" /\ esteps[4].op = "EXTRACT"
    /\ esteps[3].url # eurl
    /\ esteps[3].url.path[1] = "dp"
    /\ erec.amazon_url = esteps[3].url

(***************************************************************************)
(* SpecEmbed: create_embedding_text on one product                         *)
(***************************************************************************)
EmbedInit ==
    /\ mpc = "start"
    /\ mproduct \in EmbedProducts
    /\ mtext = <<>>
    /\ NormIdle
    /\ ExtractIdle
    /\ PipelineIdle

\* add_product, line 110: embedding_text = create_embedding_text(product)
CreateEmbeddingText ==
    /\ mpc = "start"
    /\ mtext' = create_embedding_text(mproduct)
    /\ mpc' = "done"
    /\ UNCHANGED <<mproduct, nvars, evars, pvars>>

EmbedNext == CreateEmbeddingText

SpecEmbed == EmbedInit /\ [][EmbedNext]_vars

\* the clauses after the description, each led by the ". " separator when
\* something precedes it: the category, the age range, the gender unless
\* it is unisex, the tags unless there are none
ClausesAfterDescription(product) ==
    CategoryClause(product) \o <<". ">> \o AgeClause(product)
        \o (IF product.gender # "unisex" THEN <<". ">> \o GenderClause(product) ELSE <<>>)
        \o (IF product.tags.present /\ Len(product.tags.items) > 0
            THEN <<". ">> \o TagsClause(product)
            ELSE <<>>)

(***************************************************************************)
(* C13 as stated: the embedding text is the description, the category      *)
(* clause, the age-range clause, the gender clause and the tags clause in  *)
(* that order, joined with ". "; the gender clause is left out exactly     *)
(* when the gender is unisex, the tags clause exactly when tags is empty   *)
(* or absent, and the description, category and age-range clauses are      *)
(* there for every product.                                                *)
(***************************************************************************)
C13_DescriptionAlwaysPresent ==
    mpc = "done" =>
        mtext = mproduct.description \o <<". ">> \o ClausesAfterDescription(mproduct)

(***************************************************************************)
(* C13 amended: as above, but the description clause, with its separator,  *)
(* is left out exactly when the description is empty; the category and     *)
(* age-range clauses are there for every product.                          *)
(***************************************************************************)
C13_EmbeddingTextOrder ==
    mpc = "done" =>
        mtext = (IF mproduct.description = <<>>
                 THEN <<>>
                 ELSE mproduct.description \o <<". ">>)
                    \o ClausesAfterDescription(mproduct)

\* a product for a boy with two tags and no description: the text starts at
\* the category clause
C13_Witness ==
    /\ mpc = "done"
    /\ mproduct.description = <<>>
    /\ mtext = <<"Category: ", "toys", ". ", "Good for ages ", "6", " to ", "12", ". ",
                 "Best for ", "male", ". ", "Keywords: ", "lego", ", ", "disney">>
(***************************************************************************)
(* Spec: run_pipeline(urls, keep_files, output_dir), pipeline.py 35-122    *)
(***************************************************************************)
\* the artifacts live in output_dir or in the working directory, where an
\* earlier run may have left its files; a temporary directory starts empty
Retained == output_dir \/ keep_files

Init ==
    /\ pc = "start"
    /\ urls \in SeqsUpTo(EntryKinds, MaxUrls)
    /\ keep_files \in BOOLEAN
    /\ output_dir \in BOOLEAN
    /\ temp_dir = "none"
    /\ prior_scraped \in IF Retained
                         THEN {NoFile, ListFile(<<>>), ListFile(<<StaleRecord>>)}
                         ELSE {NoFile}
    /\ scraped_file = prior_scraped
    /\ enriched_file \in IF Retained THEN {NoFile, ListFile(<<GoodItem>>)} ELSE {NoFile}
    /\ i = 1 /\ products = <<>> /\ success_count = 0 /\ error_count = 0
    /\ events = <<>> /\ scraped_data = <<>> /\ enriched_data = <<>> /\ called = {}
    /\ enrich_success = 0
    /\ store_products = <<>> /\ si = 1 /\ store_log = <<>>
    /\ store_success = 0 /\ store_error = 0 /\ exit_status = "running"
    /\ NormIdle
    /\ ExtractIdle
    /\ EmbedIdle

\* lines 38-58 and 65: no URLs is sys.exit(1) before the try block; else the
\* artifact location is chosen and process_urls is entered
Start ==
    /\ pc = "start"
    /\ IF urls = <<>>
       THEN /\ pc' = "done"
            /\ exit_status' = "exit1"
            /\ UNCHANGED <<temp_dir, called>>
       ELSE /\ pc' = "scrape"
            /\ temp_dir' = IF Retained THEN "none" ELSE "exists"
            /\ called' = called \cup {"process_urls"}
            /\ UNCHANGED exit_status
    /\ UNCHANGED <<inputs, scraped_file, enriched_file, scrapevars, scraped_data,
                   enriched_data, enrich_success, storevars, nvars, evars, mvars>>

\* process_urls, lines 313-336: one iteration of the loop
ScrapeUrl ==
    /\ pc = "scrape"
    /\ i <= Len(urls)
    /\ IF IsBlank(urls[i])
       THEN /\ i' = i + 1
            /\ UNCHANGED <<products, success_count, error_count, events>>
       ELSE LET product == ScrapeEntry(urls[i]) IN
            /\ products' = IF product.ok THEN Collect(products, product) ELSE products
            /\ success_count' = IF product.ok THEN success_count + 1 ELSE success_count
            /\ error_count' = IF product.ok THEN error_count ELSE error_count + 1
            /\ events' = events \o ScrapeRequests(EntryUrl(urls[i]))
                                \o (IF SleepsAfter(i, Len(urls)) THEN <<"SLEEP">> ELSE <<>>)
            /\ i' = NextIndex(i, product, Len(urls))
    /\ UNCHANGED <<pc, inputs, temp_dir, scraped_file, enriched_file, scraped_data,
                   enriched_data, enrich_success, called, storevars, exit_status, nvars, evars, mvars>>

\* process_urls, lines 338-353: the artifact is written when there are records
SaveResults ==
    /\ pc = "scrape"
    /\ i > Len(urls)
    /\ IF ShouldWrite(products)
       THEN /\ scraped_file' = ListFile(products)
            /\ events' = Append(events, "WRITE")
       ELSE UNCHANGED <<scraped_file, events>>
    /\ pc' = "check_scraped"
    /\ UNCHANGED <<inputs, temp_dir, enriched_file, i, products, success_count,
                   error_count, scraped_data, enriched_data, enrich_success, called, storevars,
                   exit_status, nvars, evars, mvars>>

\* process_urls, lines 340-341: open() or json.dump raises (the path cannot
\* be written); nothing in process_urls or run_pipeline catches it
SaveRaises ==
    /\ pc = "scrape"
    /\ i > Len(urls)
    /\ ShouldWrite(products)
    /\ pc' = "finally"
    /\ exit_status' = "exception"
    /\ UNCHANGED <<inputs, temp_dir, scraped_file, enriched_file, scrapevars,
                   scraped_data, enriched_data, enrich_success, called, storevars, nvars, evars, mvars>>

\* run_pipeline, lines 67-86: the checks on the file at scraped_path, then
\* the call of process_products
CheckScraped ==
    /\ pc = "check_scraped"
    /\ IF ~scraped_file.exists
       THEN /\ pc' = "finally" /\ exit_status' = "exit1"
            /\ UNCHANGED <<scraped_data, called>>
       ELSE /\ scraped_data' = scraped_file.data
            /\ IF scraped_file.data = <<>>
               THEN pc' = "finally" /\ exit_status' = "exit1" /\ UNCHANGED called
               ELSE /\ pc' = "enrich"
                    /\ called' = called \cup {"process_products"}
                    /\ UNCHANGED exit_status
    /\ UNCHANGED <<inputs, temp_dir, scraped_file, enriched_file, scrapevars,
                   enriched_data, enrich_success, storevars, nvars, evars, mvars>>

\* process_products(scraped_path, enriched_path) runs; its code is not part
\* of the sources.  Per item isolation: each scraped record
\* is enriched or dropped, and an enriched record may or may not carry the
\* fields ProductInput takes.  With no record enriched, the artifact is left
\* alone or written as an empty array.
EnrichWrites ==
    /\ pc = "enrich"
    /\ \E data \in SeqsUpTo(Items, Len(scraped_data)) :
          /\ \/ enriched_file' = ListFile(data)
             \/ data = <<>> /\ UNCHANGED enriched_file
          /\ enrich_success' = Len(data)
    /\ pc' = "check_enriched"
    /\ UNCHANGED <<inputs, temp_dir, scraped_file, scrapevars, scraped_data,
                   enriched_data, called, storevars, exit_status, nvars, evars, mvars>>

\* process_products raises
EnrichRaises ==
    /\ pc = "enrich"
    /\ pc' = "finally"
    /\ exit_status' = "exception"
    /\ UNCHANGED <<inputs, temp_dir, scraped_file, enriched_file, scrapevars,
                   scraped_data, enriched_data, enrich_success, called, storevars, nvars, evars, mvars>>

\* run_pipeline, lines 88-96: open() of a missing file raises
CheckEnriched ==
    /\ pc = "check_enriched"
    /\ IF ~enriched_file.exists
       THEN /\ pc' = "finally" /\ exit_status' = "exception"
            /\ UNCHANGED enriched_data
       ELSE /\ enriched_data' = enriched_file.data
            /\ IF enriched_file.data = <<>>
               THEN pc' = "finally" /\ exit_status' = "exit1"
               ELSE pc' = "bulk_import" /\ UNCHANGED exit_status
    /\ UNCHANGED <<inputs, temp_dir, scraped_file, enriched_file, scrapevars,
                   scraped_data, enrich_success, called, storevars, nvars, evars, mvars>>

\* bulk_import, lines 295-309, up to the call of add_products_bulk: a missing
\* file or a JSON value that is no array is sys.exit(1); one item that
\* ProductInput rejects raises out of the list comprehension
BulkImportBody(after_exit, after_raise) ==
    /\ called' = called \cup {"bulk_import"}
    /\ IF ~enriched_file.exists \/ ~enriched_file.islist
       THEN /\ pc' = after_exit /\ exit_status' = "exit1"
            /\ UNCHANGED <<store_products, si>>
       ELSE IF ConstructionFails(enriched_file.data)
       THEN /\ pc' = after_raise /\ exit_status' = "exception"
            /\ UNCHANGED <<store_products, si>>
       ELSE /\ pc' = "store" /\ UNCHANGED exit_status
            /\ store_products' = enriched_file.data
            /\ si' = 1
    /\ UNCHANGED <<inputs, temp_dir, scraped_file, enriched_file, scrapevars,
                   scraped_data, enriched_data, enrich_success, store_log, store_success, store_error,
                   nvars, evars, mvars>>

\* run_pipeline, line 102
BulkImport ==
    /\ pc = "bulk_import"
    /\ BulkImportBody("finally", "finally")

\* add_products_bulk, lines 164-170: one iteration; add_product raises at
\* the embedding call or at the insert, or returns
AddProduct ==
    /\ pc = "store"
    /\ si <= Len(store_products)
    /\ \E outcome \in AddOutcomes :
          /\ store_log' = Append(store_log, outcome)
          /\ store_success' = IF outcome = "added" THEN store_success + 1 ELSE store_success
          /\ store_error' = IF outcome = "added" THEN store_error ELSE store_error + 1
    /\ si' = si + 1
    /\ UNCHANGED <<pc, inputs, temp_dir, scraped_file, enriched_file, scrapevars,
                   scraped_data, enriched_data, enrich_success, called, store_products, exit_status,
                   nvars, evars, mvars>>

\* add_products_bulk, line 172, and run_pipeline, lines 104-113
StoreDone ==
    /\ pc = "store"
    /\ si > Len(store_products)
    /\ pc' = "finally"
    /\ exit_status' = "ok"
    /\ UNCHANGED <<inputs, temp_dir, scraped_file, enriched_file, scrapevars,
                   scraped_data, enriched_data, enrich_success, called, storevars, nvars, evars, mvars>>

\* a cleanup that runs after the last statement of the try block only
CleanupOnSuccessOnly ==
    /\ pc = "finally"
    /\ IF exit_status = "ok" /\ ~keep_files /\ ~output_dir /\ temp_dir = "exists"
       THEN /\ temp_dir' = "removed"
            /\ scraped_file' = NoFile
            /\ enriched_file' = NoFile
       ELSE UNCHANGED <<temp_dir, scraped_file, enriched_file>>
    /\ pc' = "done"
    /\ UNCHANGED <<inputs, scrapevars, scraped_data, enriched_data, enrich_success, called,
                   storevars, exit_status, nvars, evars, mvars>>

\* run_pipeline, lines 115-122: the finally block, entered on return, on
\* SystemExit and on any exception; rmtree takes the directory and its files
Cleanup ==
    /\ pc = "finally"
    /\ IF ~keep_files /\ ~output_dir /\ temp_dir = "exists"
       THEN /\ temp_dir' = "removed"
            /\ scraped_file' = NoFile
            /\ enriched_file' = NoFile
       ELSE UNCHANGED <<temp_dir, scraped_file, enriched_file>>
    /\ pc' = "done"
    /\ UNCHANGED <<inputs, scrapevars, scraped_data, enriched_data, enrich_success, called,
                   storevars, exit_status, nvars, evars, mvars>>

Next ==
    \/ Start
    \/ ScrapeUrl
    \/ SaveResults
    \/ SaveRaises
    \/ CheckScraped
    \/ EnrichWrites
    \/ EnrichRaises
    \/ CheckEnriched
    \/ BulkImport
    \/ AddProduct
    \/ StoreDone
    \/ Cleanup

Spec == Init /\ [][Next]_vars
\* process_urls has run its loop to the end
ScrapeLoopDone == "process_urls" \in called /\ i > Len(urls)

NonBlank == {k \in 1..Len(urls) : ~IsBlank(urls[k])}
\* the URLs whose fetch fails, whose page is a bot challenge, or whose page
\* has no product name
FailingKinds == {"fetch_fail", "captcha", "no_name"}
Failing == {k \in NonBlank : urls[k] \in FailingKinds}
Count(log, e) == Cardinality({k \in 1..Len(log) : log[k] = e})

(***************************************************************************)
(* C1: when the scrape stage of the current run has no successful record,  *)
(* run_pipeline ends with a non-zero status and neither process_products   *)
(* nor bulk_import is invoked, whatever the artifact location holds.       *)
(***************************************************************************)
C1_ZeroScrapeAborts ==
    (ScrapeLoopDone /\ success_count = 0)
        => /\ "process_products" \notin called
           /\ "bulk_import" \notin called
           /\ pc = "done" => exit_status # "ok"

C4_BatchIsolation ==
    ScrapeLoopDone =>
        /\ Count(events, "GET") = Cardinality(NonBlank)
        /\ Len(products) = Cardinality(NonBlank) - Cardinality(Failing)
        /\ error_count = Cardinality(Failing)
        /\ success_count = Len(products)

\* three URLs, the second without a name: two records, one failure
C4_Witness ==
    /\ ScrapeLoopDone
    /\ Len(urls) = 3 /\ Cardinality(NonBlank) = 3
    /\ Failing = {2} /\ urls[2] = "no_name"
    /\ Len(products) = 2 /\ error_count = 1

(***************************************************************************)
(* C5: process_urls writes the artifact if and only if a URL of the batch  *)
(* was scraped; when every URL fails the file at output_path is neither    *)
(* created nor modified and the stage has zero successes.                  *)
(***************************************************************************)
C5_WriteIffSuccess ==
    pc = "check_scraped" =>
        /\ Count(events, "WRITE") = (IF success_count >= 1 THEN 1 ELSE 0)
        /\ success_count >= 1 => scraped_file = ListFile(products)
        /\ success_count = 0 => (scraped_file = prior_scraped /\ products = <<>>)
        /\ success_count = Cardinality(NonBlank) - Cardinality(Failing)

\* every URL of a batch of two failed; the file an earlier run left at
\* output_path is as it was
C5_Witness ==
    /\ pc = "check_scraped"
    /\ success_count = 0 /\ error_count = 2
    /\ prior_scraped = ListFile(<<StaleRecord>>)
    /\ scraped_file = prior_scraped
    /\ Count(events, "WRITE") = 0

\* the fetches and the pacing sleeps of the batch, in order
Pacing == SelectSeq(events, LAMBDA e : e \in {"GET", "SLEEP"})

(***************************************************************************)
(* C8: in process_urls a pacing sleep lies between every two successive    *)
(* fetches and no sleep follows the last fetch, for every urls list.       *)
(***************************************************************************)
C8_SleepOnlyBetweenFetches ==
    ScrapeLoopDone =>
        /\ \A k \in 1..(Len(Pacing) - 1) :
              /\ Pacing[k] = "GET" => Pacing[k + 1] = "SLEEP"
              /\ Pacing[k] = "SLEEP" => Pacing[k + 1] = "GET"
        /\ Pacing # <<>> => Pacing[Len(Pacing)] = "GET"

(***************************************************************************)
(* C14: a zero-success outcome of any of the three stages, the store stage *)
(* (every add_product call of the batch fails) included, makes             *)
(* run_pipeline terminate with a non-zero status; run_pipeline reports     *)
(* successful completion only when each stage had at least one success.    *)
(***************************************************************************)
C14_ZeroSuccessStageAborts ==
    pc = "done" =>
        /\ ("process_urls" \in called /\ success_count = 0) => exit_status # "ok"
        /\ ("process_products" \in called /\ enrich_success = 0) => exit_status # "ok"
        /\ ("bulk_import" \in called /\ store_success = 0) => exit_status # "ok"
        /\ exit_status = "ok"
              => (success_count >= 1 /\ enrich_success >= 1 /\ store_success >= 1)

\* the entries of the batch that are scraped into a record, in input order
ScrapedKinds == SelectSeq(urls, LAMBDA u : ~IsBlank(u) /\ u \notin FailingKinds)

\* run_pipeline has read the artifact this run of process_urls wrote
ReadBack == Count(events, "WRITE") = 1 /\ pc \notin {"start", "scrape", "check_scraped"}

(***************************************************************************)
(* C16: when process_urls has run its loop, success_count plus error_count *)
(* is the number of non-blank URLs, the number of records collected is     *)
(* success_count, and the records are in the order of their URLs in the    *)
(* input; when the artifact was written, run_pipeline reads back exactly   *)
(* success_count records from it.                                          *)
(***************************************************************************)
C16_CountsOrderReadBack ==
    ScrapeLoopDone =>
        /\ success_count + error_count = Cardinality(NonBlank)
        /\ Len(products) = success_count
        /\ Len(products) = Len(ScrapedKinds)
        /\ \A k \in 1..Len(products) : products[k] = ScrapeEntry(ScrapedKinds[k])
        /\ ReadBack => (Len(scraped_data) = success_count /\ scraped_data = products)

\* a short link, a page without a name and a product URL: two records in
\* input order, one failure, and two records read back
C16_Witness ==
    /\ ScrapeLoopDone /\ ReadBack
    /\ urls = <<"short_ok", "no_name", "ok">>
    /\ success_count = 2 /\ error_count = 1
    /\ Len(products) = 2
    /\ products[1].amazon_url = CanonicalUrl("B000000002")
    /\ products[2].amazon_url = CanonicalUrl("B000000001")
    /\ Len(scraped_data) = 2

(***************************************************************************)
(* SpecStore: python scripts/add_product.py --bulk FILE.json, add_product  *)
(* .py 295-309 and 157-172                                                 *)
(***************************************************************************)
MaxBatch == 3

StoreInit ==
    /\ pc = "bulk_main"
    /\ enriched_file \in {NoFile, [exists |-> TRUE, islist |-> FALSE, data |-> <<>>]}
                            \cup {ListFile(data) : data \in SeqsUpTo(Items, MaxBatch)}
    /\ urls = <<>> /\ keep_files = FALSE /\ output_dir = FALSE
    /\ temp_dir = "none" /\ prior_scraped = NoFile /\ scraped_file = NoFile
    /\ i = 1 /\ products = <<>> /\ success_count = 0 /\ error_count = 0
    /\ events = <<>> /\ scraped_data = <<>> /\ enriched_data = <<>> /\ called = {}
    /\ enrich_success = 0
    /\ store_products = <<>> /\ si = 1 /\ store_log = <<>>
    /\ store_success = 0 /\ store_error = 0 /\ exit_status = "running"
    /\ NormIdle
    /\ ExtractIdle
    /\ EmbedIdle

\* main, line 323: bulk_import(args.bulk)
BulkImportMain ==
    /\ pc = "bulk_main"
    /\ BulkImportBody("done", "done")

\* add_products_bulk returns, and bulk_import and main with it
BulkDone ==
    /\ pc = "store"
    /\ si > Len(store_products)
    /\ pc' = "done"
    /\ exit_status' = "ok"
    /\ UNCHANGED <<inputs, temp_dir, scraped_file, enriched_file, scrapevars,
                   scraped_data, enriched_data, enrich_success, called, storevars, nvars, evars, mvars>>

StoreNext == BulkImportMain \/ AddProduct \/ BulkDone

SpecStore == StoreInit /\ [][StoreNext]_vars

WellFormed(data) == {k \in 1..Len(data) : data[k].wellformed}

(***************************************************************************)
(* C3: in the store stage a record that fails, at the construction of its  *)
(* ProductInput, at the embedding or at the insert, never keeps the other  *)
(* records of the batch from being attempted, and is counted as a failure. *)
(***************************************************************************)
C3_StoreIsolation ==
    (pc = "done" /\ enriched_file.exists /\ enriched_file.islist)
        => /\ Len(store_log) = Cardinality(WellFormed(enriched_file.data))
           /\ store_error = (Len(enriched_file.data) - Cardinality(WellFormed(enriched_file.data)))
                               + (Len(store_log) - Count(store_log, "added"))
====
